---- MODULE Spec2Model ----
(***************************************************************************)
(* WeatherAgent subscription form (src/src/app/page.tsx): the time-of-day  *)
(* arithmetic, the draft form controller (Page) and the submission proxy   *)
(* (POST).                                                                 *)
(*                                                                         *)
(* A JavaScript string is a sequence of one-character strings, so that     *)
(* trim, toLowerCase, slice, padStart and the regular expressions are      *)
(* computed character by character.  A value that may be null or undefined *)
(* is a sequence of length 0 (NULL) or 1 (Some(x)).                        *)
(***************************************************************************)
EXTENDS Integers, Sequences, FiniteSets, TLC

VARIABLES
    hourCycle,        \* hour cycle the runtime's Intl.DateTimeFormat resolves for hour12:false
    clock,            \* the current instant, as minute of the day in UTC
    ticks,            \* minutes elapsed since the page was loaded
    mounted,          \* the restore effect of the first render has run
    draft,            \* useState<Draft>
    cityInput,        \* useState("")
    saving,           \* useState(false)
    toast,            \* useState<{kind,msg}|null>
    timers,           \* the timeouts of window.setTimeout that are pending: id and time left
    toastTimer,       \* useRef<number|null>: toastTimer.current
    editingIndex,     \* useState<number|null>
    editingValue,     \* useState<string>
    scheduledAheadOk, \* the value cached by useMemo for scheduledAheadOk
    calls,            \* requests to /api/placeholder-upsert that have not completed
    env,              \* process.env of the proxy
    nOps,             \* number of user interactions so far
    lastCityOp,       \* the last handler of the city list that ran, and the length it found
    editInput,        \* the inline input of a chip: whether it has the focus, and the city it was opened on
    probe             \* arguments and result of the last direct evaluation of a time function

vars == <<hourCycle, clock, ticks, mounted, draft, cityInput, saving, toast, timers, toastTimer,
          editingIndex, editingValue, scheduledAheadOk, calls, env, nOps, lastCityOp, editInput,
          probe>>

-----------------------------------------------------------------------------
(* Bounds of the model *)

MaxOps == 3

MaxTicks == 2

\* The largest step of time between two observations of the page, in ms.
TimeStep == 1500

-----------------------------------------------------------------------------
(* null / undefined *)

NULL == <<>>

Some(x) == <<x>>

-----------------------------------------------------------------------------
(* Strings *)

UpperChars == <<"A","B","C","D","E","F","G","H","I","J","K","L","M",
                "N","O","P","Q","R","S","T","U","V","W","X","Y","Z">>

LowerChars == <<"a","b","c","d","e","f","g","h","i","j","k","l","m",
                "n","o","p","q","r","s","t","u","v","w","x","y","z">>

DigitChars == <<"0","1","2","3","4","5","6","7","8","9">>

IsWs(c) == c = " "

IsDigit(c) == \E i \in 1..10 : DigitChars[i] = c

DigitVal(c) == (CHOOSE i \in 1..10 : DigitChars[i] = c) - 1

LowerChar(c) ==
    IF \E i \in 1..26 : UpperChars[i] = c
    THEN LowerChars[CHOOSE i \in 1..26 : UpperChars[i] = c]
    ELSE c

toLowerCase(s) == [i \in 1..Len(s) |-> LowerChar(s[i])]

RECURSIVE TrimStart(_)
TrimStart(s) == IF s # <<>> /\ IsWs(Head(s)) THEN TrimStart(Tail(s)) ELSE s

RECURSIVE TrimEnd(_)
TrimEnd(s) ==
    IF s # <<>> /\ IsWs(s[Len(s)]) THEN TrimEnd(SubSeq(s, 1, Len(s) - 1)) ELSE s

trim(s) == TrimEnd(TrimStart(s))

slice(s, from, to) == SubSeq(s, from + 1, IF to < Len(s) THEN to ELSE Len(s))

RECURSIVE NumberToString(_)
NumberToString(n) ==
    IF n < 10 THEN <<DigitChars[n + 1]>>
    ELSE NumberToString(n \div 10) \o <<DigitChars[(n % 10) + 1]>>

RECURSIVE padStart(_, _, _)
padStart(s, width, fill) == IF Len(s) < width THEN padStart(<<fill>> \o s, width, fill) ELSE s

-----------------------------------------------------------------------------
(* Time arithmetic *)

MIN_AHEAD_MINUTES == 2

\* window.setTimeout(() => setToast(null), 3000)
TOAST_MS == 3000

UTC == <<"U","T","C">>

Kolkata == <<"A","s","i","a","/","K","o","l","k","a","t","a">>

\* Entries of COMMON_TIMEZONES the model uses.
Zones == {UTC, Kolkata}

\* Offset from UTC, in minutes, of the zones the model uses.
ZoneOffset(timezone) == IF timezone = Kolkata THEN 330 ELSE 0

\* Intl.DateTimeFormat("en-US", {hour: "2-digit", minute: "2-digit", hour12: false}).
\* The hour field is 00..23 on a runtime that resolves hour12:false to the
\* h23 cycle and 01..24 on one that resolves it to h24 (midnight is "24").
nowHHMMInTimeZone(timezone) ==
    LET local == (clock + ZoneOffset(timezone)) % 1440
        h     == local \div 60
        hour  == IF hourCycle = "h24" /\ h = 0 THEN 24 ELSE h
        hh    == padStart(NumberToString(hour), 2, "0")
        mm    == padStart(NumberToString(local % 60), 2, "0")
    IN  hh \o <<":">> \o mm

\* /^(\d{2}):(\d{2})$/ on the trimmed string, then the range check.
parseHHMM(s) ==
    LET t == trim(s) IN
    IF /\ Len(t) = 5
       /\ IsDigit(t[1]) /\ IsDigit(t[2]) /\ t[3] = ":" /\ IsDigit(t[4]) /\ IsDigit(t[5])
    THEN LET hh == DigitVal(t[1]) * 10 + DigitVal(t[2])
             mm == DigitVal(t[4]) * 10 + DigitVal(t[5])
         IN  IF hh < 0 \/ hh > 23 \/ mm < 0 \/ mm > 59
             THEN NULL
             ELSE Some([hh |-> hh, mm |-> mm])
    ELSE NULL

minutesOfDay(hh, mm) == hh * 60 + mm

hhmmToMinutes(s) ==
    LET p == parseHHMM(s) IN
    IF p = NULL THEN NULL ELSE Some(minutesOfDay(p[1].hh, p[1].mm))

addMinutesHHMMInTimeZone(timezone, minutesToAdd) ==
    LET base == nowHHMMInTimeZone(timezone)
        p    == parseHHMM(base)
    IN  IF p = NULL THEN base
        ELSE LET total == (((minutesOfDay(p[1].hh, p[1].mm) + minutesToAdd) % 1440) + 1440) % 1440
                 hh    == padStart(NumberToString(total \div 60), 2, "0")
                 mm    == padStart(NumberToString(total % 60), 2, "0")
             IN  hh \o <<":">> \o mm

\* minutesUntilSend with the comparison of line 117 made strict.
minutesUntilSend_strictLater(timezone, preferredHHMM) ==
    LET nowP  == parseHHMM(nowHHMMInTimeZone(timezone))
        prefP == parseHHMM(preferredHHMM)
    IN  IF nowP = NULL \/ prefP = NULL THEN NULL
        ELSE LET nowMin  == minutesOfDay(nowP[1].hh, nowP[1].mm)
                 prefMin == minutesOfDay(prefP[1].hh, prefP[1].mm)
             IN  IF prefMin > nowMin THEN Some(prefMin - nowMin)
                 ELSE Some((1440 - nowMin) + prefMin)

minutesUntilSend(timezone, preferredHHMM) ==
    LET nowP  == parseHHMM(nowHHMMInTimeZone(timezone))
        prefP == parseHHMM(preferredHHMM)
    IN  IF nowP = NULL \/ prefP = NULL THEN NULL
        ELSE LET nowMin  == minutesOfDay(nowP[1].hh, nowP[1].mm)
                 prefMin == minutesOfDay(prefP[1].hh, prefP[1].mm)
             IN  IF prefMin >= nowMin THEN Some(prefMin - nowMin)
                 ELSE Some((1440 - nowMin) + prefMin)

isAtLeastMinutesAhead(timezone, preferredHHMM, minAhead) ==
    LET diff == minutesUntilSend(timezone, preferredHHMM) IN
    diff # NULL /\ diff[1] >= minAhead

-----------------------------------------------------------------------------
(* Draft helpers *)

RECURSIVE clampLoop(_, _, _)
clampLoop(arr, seen, out) ==
    IF arr = <<>> THEN out
    ELSE LET v   == trim(Head(arr))
             key == toLowerCase(v)
         IN  IF v = <<>> THEN clampLoop(Tail(arr), seen, out)
             ELSE IF key \in seen THEN clampLoop(Tail(arr), seen, out)
             ELSE clampLoop(Tail(arr), seen \cup {key}, Append(out, v))

\* clampCities without the cap of line 44.
clampCities_noCap(arr) == clampLoop(arr, {}, <<>>)

\* clampCities with the cap of line 44 off by one.
clampCities_capEleven(arr) == slice(clampLoop(arr, {}, <<>>), 0, 11)

clampCities(arr) == slice(clampLoop(arr, {}, <<>>), 0, 10)

\* /^[^\s@]+@[^\s@]+\.[^\s@]+$/ on the trimmed string: no white space, exactly
\* one "@", at least one character before it, and after it a "." that has at
\* least one character on each side.
isEmailLike(v) ==
    LET t == trim(v) IN
    \E p \in 1..Len(t) :
        /\ t[p] = "@"
        /\ p > 1
        /\ \A i \in 1..Len(t) : ~IsWs(t[i]) /\ (t[i] = "@" => i = p)
        /\ \E q \in (p + 2)..(Len(t) - 1) : t[q] = "."

\* /^\d{2}:\d{2}$/ on the string as it is (no trim, no range check).
timeValid(preferred_time) ==
    /\ Len(preferred_time) = 5
    /\ IsDigit(preferred_time[1]) /\ IsDigit(preferred_time[2])
    /\ preferred_time[3] = ":"
    /\ IsDigit(preferred_time[4]) /\ IsDigit(preferred_time[5])

\* The body of the scheduledAheadOk memo, evaluated at the current instant.
computeScheduledAheadOk(d) ==
    IF ~timeValid(d.preferred_time) THEN FALSE
    ELSE isAtLeastMinutesAhead(d.timezone, d.preferred_time, MIN_AHEAD_MINUTES)

\* useMemo(..., [draft.timezone, draft.preferred_time, timeValid]): the cached
\* value is kept by a render whose dependencies are the ones of the render
\* that computed it, whatever the clock says by then.
memoScheduledAheadOk(d) ==
    IF d.timezone # draft.timezone \/ d.preferred_time # draft.preferred_time
    THEN computeScheduledAheadOk(d)
    ELSE scheduledAheadOk

canSave ==
    /\ isEmailLike(draft.email)
    /\ Len(trim(draft.timezone)) > 0
    /\ timeValid(draft.preferred_time)
    /\ Len(draft.cities) >= 1
    /\ scheduledAheadOk

\* disabled={!canSave || saving}
saveDisabled == ~canSave \/ saving

\* The send-test button without the saving guard of line 555.
sendTestDisabled_ignoresSaving == ~isEmailLike(draft.email)

\* disabled={!isEmailLike(draft.email) || saving}
sendTestDisabled == ~isEmailLike(draft.email) \/ saving

\* setDraft followed by the render it causes.
setDraft(d) ==
    /\ draft' = d
    /\ scheduledAheadOk' = memoScheduledAheadOk(d)

\* A user interaction: one more of the bounded number the model follows.
userEvent ==
    /\ mounted
    /\ nOps < MaxOps
    /\ nOps' = nOps + 1

cityEvent(op) ==
    /\ userEvent
    /\ lastCityOp' = [op |-> op, n |-> Len(draft.cities)]

\* No chip is being edited.
noEditInput == [focused |-> FALSE, city |-> NULL]

\* An event on an element other than the inline input: the input does not
\* have the focus (if it had, it has lost it first, see blurEditInput).
elsewhere == ~editInput.focused

-----------------------------------------------------------------------------
(* Strings the model uses *)

London == <<"L","o","n","d","o","n">>

Paris == <<"P","a","r","i","s">>

EmailOk == <<"a","@","b",".","c","o","m">>

EmailInputs == { <<>>, EmailOk, <<" ">> \o EmailOk, <<"a","@","b">>,
                 <<"a"," ","b","@","c",".","c","o","m">>, <<"@","b",".","c","o","m">> }

HHMM(h, m) == padStart(NumberToString(h), 2, "0") \o <<":">> \o padStart(NumberToString(m), 2, "0")

\* Values an <input type="time"> reports: empty, or a well-formed time.
TimeInputs == { <<>>, HHMM(0, 0), HHMM(0, 1), HHMM(23, 59) }

StartClocks == { 23 * 60 + 58 }

-----------------------------------------------------------------------------
(* Field edits *)

SetEmail(v) ==
    /\ userEvent
    /\ elsewhere
    /\ UNCHANGED <<lastCityOp, editInput>>
    /\ setDraft([draft EXCEPT !.email = v])
    /\ UNCHANGED <<hourCycle, clock, ticks, mounted, cityInput, saving, toast, timers, toastTimer,
                   editingIndex, editingValue, calls, env, probe>>

SetTimezone(tz) ==
    /\ userEvent
    /\ elsewhere
    /\ UNCHANGED <<lastCityOp, editInput>>
    /\ setDraft([draft EXCEPT !.timezone = tz])
    /\ UNCHANGED <<hourCycle, clock, ticks, mounted, cityInput, saving, toast, timers, toastTimer,
                   editingIndex, editingValue, calls, env, probe>>

SetPreferredTime(v) ==
    /\ userEvent
    /\ elsewhere
    /\ UNCHANGED <<lastCityOp, editInput>>
    /\ setDraft([draft EXCEPT !.preferred_time = v])
    /\ UNCHANGED <<hourCycle, clock, ticks, mounted, cityInput, saving, toast, timers, toastTimer,
                   editingIndex, editingValue, calls, env, probe>>

SetUnits(u) ==
    /\ userEvent
    /\ elsewhere
    /\ UNCHANGED <<lastCityOp, editInput>>
    /\ setDraft([draft EXCEPT !.units = u])
    /\ UNCHANGED <<hourCycle, clock, ticks, mounted, cityInput, saving, toast, timers, toastTimer,
                   editingIndex, editingValue, calls, env, probe>>

ToggleActive ==
    /\ userEvent
    /\ elsewhere
    /\ UNCHANGED <<lastCityOp, editInput>>
    /\ setDraft([draft EXCEPT !.is_active = ~draft.is_active])
    /\ UNCHANGED <<hourCycle, clock, ticks, mounted, cityInput, saving, toast, timers, toastTimer,
                   editingIndex, editingValue, calls, env, probe>>

-----------------------------------------------------------------------------
(* City list *)

SetCityInput(v) ==
    /\ userEvent
    /\ elsewhere
    /\ UNCHANGED <<lastCityOp, editInput>>
    /\ cityInput' = v
    /\ UNCHANGED <<hourCycle, clock, ticks, mounted, draft, saving, toast, timers, toastTimer,
                   editingIndex, editingValue, scheduledAheadOk, calls, env, probe>>

\* The chips are keyed by name and index; the chip at editingIndex renders
\* the inline input with autoFocus.  After the list changes from old to new,
\* the input is mounted afresh, and takes the focus, when that chip is new.
mountsEditInput(old, new) ==
    /\ editingIndex # NULL
    /\ editingIndex[1] < Len(new)
    /\ \/ editingIndex[1] >= Len(old)
       \/ old[editingIndex[1] + 1] # new[editingIndex[1] + 1]

\* The Add button is disabled while the input is blank; Enter in the input
\* calls addCity whatever the input holds, and addCity returns on a blank.
addCity ==
    /\ cityEvent("addCity")
    /\ elsewhere
    /\ LET v == trim(cityInput) IN
       IF v = <<>>
       THEN UNCHANGED <<draft, scheduledAheadOk, cityInput, editInput>>
       ELSE LET next == clampCities(Append(draft.cities, v)) IN
            /\ setDraft([draft EXCEPT !.cities = next])
            /\ cityInput' = <<>>
            /\ editInput' = [editInput EXCEPT !.focused = mountsEditInput(draft.cities, next)]
    /\ UNCHANGED <<hourCycle, clock, ticks, mounted, saving, toast, timers, toastTimer,
                   editingIndex, editingValue, calls, env, probe>>

\* d.cities.filter((_, i) => i !== idx), idx counted from 0.
filterOut(cities, idx) ==
    LET keep == { i \in 1..Len(cities) : i - 1 # idx }
        F[k \in 0..Len(cities)] ==
            IF k = 0 THEN <<>>
            ELSE IF k \in keep THEN Append(F[k - 1], cities[k]) ELSE F[k - 1]
    IN  F[Len(cities)]

removeCity(idx) ==
    /\ cityEvent("removeCity")
    /\ elsewhere
    /\ idx \in 0..(Len(draft.cities) - 1)
    /\ setDraft([draft EXCEPT !.cities = filterOut(draft.cities, idx)])
    /\ IF editingIndex = Some(idx)
       THEN /\ editingIndex' = NULL
            /\ editingValue' = <<>>
            /\ editInput' = noEditInput
       ELSE /\ UNCHANGED <<editingIndex, editingValue>>
            /\ editInput' = [editInput EXCEPT !.focused =
                                mountsEditInput(draft.cities, filterOut(draft.cities, idx))]
    /\ UNCHANGED <<hourCycle, clock, ticks, mounted, cityInput, saving, toast, timers, toastTimer,
                   calls, env, probe>>

\* The chip at idx is a button only while that chip is not being edited.
startEditCity(idx) ==
    /\ cityEvent("startEditCity")
    /\ elsewhere
    /\ idx \in 0..(Len(draft.cities) - 1)
    /\ editingIndex # Some(idx)
    /\ editingIndex' = Some(idx)
    /\ editingValue' = draft.cities[idx + 1]
    /\ editInput' = [focused |-> TRUE, city |-> Some(draft.cities[idx + 1])]
    /\ UNCHANGED <<hourCycle, clock, ticks, mounted, draft, cityInput, saving, toast,
                   timers, toastTimer, scheduledAheadOk, calls, env, probe>>

\* The inline input exists only while editingIndex designates a rendered chip.
editInputShown == editingIndex # NULL /\ editingIndex[1] < Len(draft.cities)

SetEditingValue(v) ==
    /\ userEvent
    /\ UNCHANGED <<lastCityOp, editInput>>
    /\ editInputShown
    /\ editInput.focused
    /\ editingValue' = v
    /\ UNCHANGED <<hourCycle, clock, ticks, mounted, draft, cityInput, saving, toast,
                   timers, toastTimer, editingIndex, scheduledAheadOk, calls, env, probe>>

\* The user clicks into the inline input that had lost the focus.
focusEditInput ==
    /\ userEvent
    /\ elsewhere
    /\ editInputShown
    /\ editInput' = [editInput EXCEPT !.focused = TRUE]
    /\ UNCHANGED <<hourCycle, clock, ticks, mounted, draft, cityInput, saving, toast,
                   timers, toastTimer, editingIndex, editingValue, scheduledAheadOk, calls,
                   env, lastCityOp, probe>>

\* Escape in the inline input.
cancelEditCity ==
    /\ cityEvent("cancelEditCity")
    /\ editInputShown
    /\ editInput.focused
    /\ editingIndex' = NULL
    /\ editingValue' = <<>>
    /\ editInput' = noEditInput
    /\ UNCHANGED <<hourCycle, clock, ticks, mounted, draft, cityInput, saving, toast,
                   timers, toastTimer, scheduledAheadOk, calls, env, probe>>

\* next[editingIndex] = v on a copy of the list; an index past the end leaves
\* holes, which clampCities reads as "" (raw ?? "").
assignAt(cities, idx, v) ==
    [i \in 1..(IF idx + 1 > Len(cities) THEN idx + 1 ELSE Len(cities)) |->
        IF i = idx + 1 THEN v ELSE IF i <= Len(cities) THEN cities[i] ELSE <<>>]

\* The body of commitEditCity; a commit that returns early leaves the input
\* as it is, with the focus if the commit came from the Enter key.
commitEdit(keepsFocus) ==
    IF editingIndex = NULL
    THEN /\ UNCHANGED <<draft, scheduledAheadOk, editingIndex, editingValue>>
         /\ editInput' = [editInput EXCEPT !.focused = keepsFocus]
    ELSE LET v == trim(editingValue) IN
         IF v = <<>>
         THEN /\ UNCHANGED <<draft, scheduledAheadOk, editingIndex, editingValue>>
              /\ editInput' = [editInput EXCEPT !.focused = keepsFocus]
         ELSE /\ setDraft([draft EXCEPT
                     !.cities = clampCities(assignAt(draft.cities, editingIndex[1], v))])
              /\ editingIndex' = NULL
              /\ editingValue' = <<>>
              /\ editInput' = noEditInput

\* Enter in the inline input.
commitEditCity ==
    /\ cityEvent("commitEditCity")
    /\ editInputShown
    /\ editInput.focused
    /\ commitEdit(TRUE)
    /\ UNCHANGED <<hourCycle, clock, ticks, mounted, cityInput, saving, toast, timers, toastTimer,
                   calls, env, probe>>

\* onBlur={commitEditCity}: the inline input loses the focus, as it does
\* before any event on another element.
blurEditInput ==
    /\ mounted
    /\ editInputShown
    /\ editInput.focused
    /\ lastCityOp' = [op |-> "blurEditInput", n |-> Len(draft.cities)]
    /\ commitEdit(FALSE)
    /\ UNCHANGED <<hourCycle, clock, ticks, mounted, cityInput, saving, toast, timers, toastTimer,
                   calls, env, nOps, probe>>

-----------------------------------------------------------------------------
(* Restore effect *)

\* typeof v === "string" && v !== "", for an optional string
truthy(opt) == opt # NULL /\ opt[1] # <<>>

\* parsed is NULL when nothing is stored (or the stored text is not JSON), and
\* otherwise a Partial<Draft> whose fields are NULL when absent.
restoreDraft(prev, parsed) ==
    LET tz == trim(IF truthy(parsed.timezone) THEN parsed.timezone[1]
                   ELSE IF prev.timezone # <<>> THEN prev.timezone
                   ELSE UTC)
        pt == IF truthy(parsed.preferred_time) THEN parsed.preferred_time[1]
              ELSE IF prev.preferred_time # <<>> THEN prev.preferred_time
              ELSE <<"0","9",":","0","0">>
    IN  [ email          |-> IF parsed.email # NULL THEN parsed.email[1] ELSE prev.email,
          timezone       |-> tz,
          preferred_time |-> slice(pt, 0, 5),
          units          |-> IF parsed.units = Some("imperial") THEN "imperial" ELSE "metric",
          cities         |-> clampCities(IF parsed.cities # NULL THEN parsed.cities[1]
                                         ELSE prev.cities),
          is_active      |-> IF parsed.is_active # NULL THEN parsed.is_active[1]
                             ELSE prev.is_active ]

Restore(parsed) ==
    /\ ~mounted
    /\ mounted' = TRUE
    /\ IF parsed = NULL
       THEN UNCHANGED <<draft, scheduledAheadOk>>
       ELSE setDraft(restoreDraft(draft, parsed[1]))
    /\ lastCityOp' = [op |-> "restore", n |-> Len(draft.cities)]
    /\ UNCHANGED editInput
    /\ UNCHANGED <<hourCycle, clock, ticks, cityInput, saving, toast, timers, toastTimer,
                   editingIndex, editingValue, calls, env, nOps, probe>>

-----------------------------------------------------------------------------
(* Notifications *)

\* window.setTimeout returns an id that no pending timeout has.
setTimeoutId == IF toastTimer = NULL THEN 1 ELSE toastTimer[1] + 1

\* window.clearTimeout(id): the pending timeouts without the one of that id.
clearTimeout(pending, ref) ==
    IF ref = NULL THEN pending ELSE { t \in pending : t.id # ref[1] }

\* showToast that arms the new timeout without clearing the one it holds.
showToast_keepsOldTimer(kind, msg, detail) ==
    /\ toast' = Some([kind |-> kind, msg |-> msg, detail |-> detail,
                      timer |-> setTimeoutId, age |-> 0])
    /\ timers' = timers \cup {[id |-> setTimeoutId, left |-> TOAST_MS]}
    /\ toastTimer' = Some(setTimeoutId)

\* The toast carries, beside kind and msg, the id of the timeout armed with
\* it and the time it has been shown.
showToast(kind, msg, detail) ==
    /\ toast' = Some([kind |-> kind, msg |-> msg, detail |-> detail,
                      timer |-> setTimeoutId, age |-> 0])
    /\ timers' = clearTimeout(timers, toastTimer)
                     \cup {[id |-> setTimeoutId, left |-> TOAST_MS]}
    /\ toastTimer' = Some(setTimeoutId)

\* The callback of window.setTimeout(() => setToast(null), 3000).
ToastTimerFire(t) ==
    /\ t \in timers
    /\ t.left = 0
    /\ timers' = timers \ {t}
    /\ toast' = NULL
    /\ UNCHANGED toastTimer
    /\ UNCHANGED <<lastCityOp, editInput>>
    /\ UNCHANGED <<hourCycle, clock, ticks, mounted, draft, cityInput, saving,
                   editingIndex, editingValue, scheduledAheadOk, calls, env, nOps, probe>>

\* Time passes, up to the moment the next pending timeout is due.
Elapse ==
    /\ timers # {}
    /\ \A t \in timers : t.left > 0
    /\ LET due == CHOOSE d \in { t.left : t \in timers } : \A t \in timers : d <= t.left
           dt  == IF TimeStep < due THEN TimeStep ELSE due
       IN  /\ timers' = { [t EXCEPT !.left = @ - dt] : t \in timers }
           /\ toast' = IF toast = NULL THEN NULL
                       ELSE Some([toast[1] EXCEPT !.age = @ + dt])
    /\ UNCHANGED <<lastCityOp, editInput>>
    /\ UNCHANGED <<hourCycle, clock, ticks, mounted, draft, cityInput, saving, toastTimer,
                   editingIndex, editingValue, scheduledAheadOk, calls, env, nOps, probe>>

\* A minute passes.  Nothing of the page depends on the clock until it
\* renders with changed memo dependencies or runs a handler.
Tick ==
    /\ mounted
    /\ ticks < MaxTicks
    /\ ticks' = ticks + 1
    /\ clock' = (clock + 1) % 1440
    /\ UNCHANGED <<lastCityOp, editInput>>
    /\ UNCHANGED <<hourCycle, mounted, draft, cityInput, saving, toast, timers, toastTimer,
                   editingIndex, editingValue, scheduledAheadOk, calls, env, nOps, probe>>

-----------------------------------------------------------------------------
(* Submit: the part of saveSubscription that runs in the click *)

\* The JSON text of the payload, as the proxy's req.json() reads it back.
payloadOf(d, scheduled) ==
    [ json           |-> TRUE,
      email          |-> Some(trim(d.email)),
      timezone       |-> Some(trim(d.timezone)),
      preferred_time |-> Some(trim(scheduled)),
      units          |-> Some(d.units),
      cities         |-> Some([isArray |-> TRUE, items |-> d.cities]),
      is_active      |-> Some(d.is_active) ]

scheduledFor(testNow) ==
    IF testNow THEN addMinutesHHMMInTimeZone(draft.timezone, MIN_AHEAD_MINUTES)
    ELSE draft.preferred_time

\* if (!opts?.testNow && !scheduledAheadOk)
rejectedByLookahead(testNow) == ~testNow /\ ~scheduledAheadOk

newCall(testNow) ==
    [ id        |-> nOps,
      testNow   |-> testNow,
      scheduled |-> scheduledFor(testNow),
      timezone  |-> draft.timezone,
      body      |-> payloadOf(draft, scheduledFor(testNow)),
      st        |-> "sent",
      fwd       |-> NULL,
      up        |-> NULL,
      resp      |-> NULL ]

saveSubscription(testNow) ==
    IF rejectedByLookahead(testNow)
    THEN /\ showToast("err", "PickLaterTime", <<draft.timezone>>)
         /\ saving' = FALSE
         /\ UNCHANGED calls
    ELSE /\ saving' = TRUE
         /\ toast' = NULL
         /\ calls' = calls \cup {newCall(testNow)}
         /\ UNCHANGED <<timers, toastTimer>>

ClickSave ==
    /\ ~saveDisabled
    /\ userEvent
    /\ elsewhere
    /\ UNCHANGED <<lastCityOp, editInput>>
    /\ saveSubscription(FALSE)
    /\ UNCHANGED <<hourCycle, clock, ticks, mounted, draft, cityInput,
                   editingIndex, editingValue, scheduledAheadOk, env, probe>>

ClickSendTest ==
    /\ ~sendTestDisabled
    /\ userEvent
    /\ elsewhere
    /\ UNCHANGED <<lastCityOp, editInput>>
    /\ saveSubscription(TRUE)
    /\ UNCHANGED <<hourCycle, clock, ticks, mounted, draft, cityInput,
                   editingIndex, editingValue, scheduledAheadOk, env, probe>>

-----------------------------------------------------------------------------
(* Submission proxy: POST *)

\* !v for an environment variable or a string field of the body
falsy(opt) == opt = NULL \/ opt[1] = <<>>

errorResponse(status, message) ==
    [status |-> status, kind |-> "error", text |-> <<>>, error |-> message]

\* POST without the Array.isArray(cities) check of line 647.
postReceive_noCitiesCheck(e, body) ==
    IF falsy(e.SUPABASE_URL)
    THEN [reply |-> Some(errorResponse(500, "Missing SUPABASE_URL env var")), forward |-> NULL]
    ELSE IF falsy(e.ADMIN_SECRET)
    THEN [reply |-> Some(errorResponse(500, "Missing ADMIN_SECRET env var")), forward |-> NULL]
    ELSE IF falsy(e.SUPABASE_SERVICE_ROLE_KEY)
    THEN [reply |-> Some(errorResponse(500, "Missing SUPABASE_SERVICE_ROLE_KEY env var")),
          forward |-> NULL]
    ELSE IF ~body.json
    THEN [reply |-> Some(errorResponse(500, "Unexpected token in JSON")), forward |-> NULL]
    ELSE IF \/ falsy(body.email)
            \/ falsy(body.timezone)
            \/ falsy(body.preferred_time)
            \/ body.units = NULL \/ body.units[1] = ""
    THEN [reply |-> Some(errorResponse(400, "Missing required fields")), forward |-> NULL]
    ELSE [reply   |-> NULL,
          forward |-> Some([ url            |-> e.SUPABASE_URL[1],
                             authorization  |-> e.SUPABASE_SERVICE_ROLE_KEY[1],
                             apikey         |-> e.SUPABASE_SERVICE_ROLE_KEY[1],
                             x_admin_secret |-> trim(e.ADMIN_SECRET[1]),
                             body           |-> [body EXCEPT !.json = TRUE] ])]

\* POST up to the upstream fetch: the response it returns at once (reply), or
\* the request it sends upstream (forward).
postReceive(e, body) ==
    IF falsy(e.SUPABASE_URL)
    THEN [reply |-> Some(errorResponse(500, "Missing SUPABASE_URL env var")), forward |-> NULL]
    ELSE IF falsy(e.ADMIN_SECRET)
    THEN [reply |-> Some(errorResponse(500, "Missing ADMIN_SECRET env var")), forward |-> NULL]
    ELSE IF falsy(e.SUPABASE_SERVICE_ROLE_KEY)
    THEN [reply |-> Some(errorResponse(500, "Missing SUPABASE_SERVICE_ROLE_KEY env var")),
          forward |-> NULL]
    ELSE IF ~body.json
    THEN [reply |-> Some(errorResponse(500, "Unexpected token in JSON")), forward |-> NULL]
    ELSE IF \/ falsy(body.email)
            \/ falsy(body.timezone)
            \/ falsy(body.preferred_time)
            \/ body.units = NULL \/ body.units[1] = ""
            \/ body.cities = NULL \/ ~body.cities[1].isArray
    THEN [reply |-> Some(errorResponse(400, "Missing required fields")), forward |-> NULL]
    ELSE [reply   |-> NULL,
          forward |-> Some([ url            |-> e.SUPABASE_URL[1],
                             authorization  |-> e.SUPABASE_SERVICE_ROLE_KEY[1],
                             apikey         |-> e.SUPABASE_SERVICE_ROLE_KEY[1],
                             x_admin_secret |-> trim(e.ADMIN_SECRET[1]),
                             body           |-> [body EXCEPT !.json = TRUE] ])]

\* JSON.stringify(JSON.parse(text)) for the JSON texts the model uses: an
\* integer literal with optional white space around it.  NULL when
\* JSON.parse throws.
jsonReserialize(text) ==
    LET t == trim(text) IN
    IF /\ t # <<>>
       /\ \A i \in 1..Len(t) : IsDigit(t[i])
       /\ (Len(t) > 1 => t[1] # "0")
    THEN Some(t)
    ELSE NULL

isOk(status) == status >= 200 /\ status <= 299

\* new Response(body, {status}) throws for a status that cannot carry a body.
nullBodyStatus(status) == status \in {101, 204, 205, 304}

\* POST relaying the upstream status on the success path as well.
postRelay_keepsStatus(status, text) ==
    IF ~isOk(status)
    THEN IF nullBodyStatus(status)
         THEN errorResponse(500, "Invalid response status code")
         ELSE [status |-> status, kind |-> "text", text |-> text, error |-> ""]
    ELSE IF jsonReserialize(text) # NULL
         THEN [status |-> status, kind |-> "json", text |-> jsonReserialize(text)[1], error |-> ""]
         ELSE [status |-> status, kind |-> "text", text |-> text, error |-> ""]

\* POST after the upstream fetch has resolved with (status, text).
postRelay(status, text) ==
    IF ~isOk(status)
    THEN IF nullBodyStatus(status)
         THEN errorResponse(500, "Invalid response status code")
         ELSE [status |-> status, kind |-> "text", text |-> text, error |-> ""]
    ELSE IF jsonReserialize(text) # NULL
         THEN [status |-> 200, kind |-> "json", text |-> jsonReserialize(text)[1], error |-> ""]
         ELSE [status |-> 200, kind |-> "text", text |-> text, error |-> ""]

ProxyReceive(c) ==
    /\ c \in calls
    /\ c.st = "sent"
    /\ LET r == postReceive(env, c.body) IN
       calls' = (calls \ {c}) \cup
                { IF r.reply # NULL
                  THEN [c EXCEPT !.st = "replied", !.resp = r.reply]
                  ELSE [c EXCEPT !.st = "upstream", !.fwd = r.forward] }
    /\ UNCHANGED <<lastCityOp, editInput>>
    /\ UNCHANGED <<hourCycle, clock, ticks, mounted, draft, cityInput, saving, toast,
                   timers, toastTimer, editingIndex, editingValue, scheduledAheadOk, env, nOps, probe>>

UpstreamRespond(c, status, text) ==
    /\ c \in calls
    /\ c.st = "upstream"
    /\ calls' = (calls \ {c}) \cup
                { [c EXCEPT !.st = "replied",
                             !.up = Some([status |-> status, text |-> text]),
                             !.resp = Some(postRelay(status, text))] }
    /\ UNCHANGED <<lastCityOp, editInput>>
    /\ UNCHANGED <<hourCycle, clock, ticks, mounted, draft, cityInput, saving, toast,
                   timers, toastTimer, editingIndex, editingValue, scheduledAheadOk, env, nOps, probe>>

\* The upstream fetch rejects: the catch of POST answers 500 with the message.
UpstreamFail(c) ==
    /\ c \in calls
    /\ c.st = "upstream"
    /\ calls' = (calls \ {c}) \cup
                { [c EXCEPT !.st = "replied", !.resp = Some(errorResponse(500, "fetch failed"))] }
    /\ UNCHANGED <<lastCityOp, editInput>>
    /\ UNCHANGED <<hourCycle, clock, ticks, mounted, draft, cityInput, saving, toast,
                   timers, toastTimer, editingIndex, editingValue, scheduledAheadOk, env, nOps, probe>>

-----------------------------------------------------------------------------
(* Submit: the part of saveSubscription that runs after the await *)

\* text || `HTTP ${res.status}`
errorMessageOf(resp) ==
    IF resp.kind # "error" /\ resp.text = <<>>
    THEN <<"HTTP", resp.status>>
    ELSE <<resp.kind, resp.text, resp.error>>

\* The success path writing the submitted payload back into the draft.
commitScheduled_fromPayload(d, c) ==
    [d EXCEPT !.preferred_time = c.scheduled,
              !.units = c.body.units[1],
              !.cities = c.body.cities[1].items,
              !.is_active = c.body.is_active[1]]

\* setDraft((d) => ({ ...d, preferred_time: scheduled }))
commitScheduled(d, c) == [d EXCEPT !.preferred_time = c.scheduled]

ReceiveResponse(c) ==
    /\ c \in calls
    /\ c.st = "replied"
    /\ calls' = calls \ {c}
    /\ saving' = FALSE
    /\ IF ~isOk(c.resp[1].status)
       THEN /\ showToast("err", "Error", errorMessageOf(c.resp[1]))
            /\ UNCHANGED <<draft, scheduledAheadOk>>
       ELSE IF c.testNow
       THEN /\ showToast("ok", "SavedTest", <<c.scheduled, c.timezone>>)
            /\ setDraft(commitScheduled(draft, c))
       ELSE /\ showToast("ok", "Saved", <<>>)
            /\ UNCHANGED <<draft, scheduledAheadOk>>
    /\ UNCHANGED <<lastCityOp, editInput>>
    /\ UNCHANGED <<hourCycle, clock, ticks, mounted, cityInput,
                   editingIndex, editingValue, env, nOps, probe>>

\* The catch of saveSubscription with setSaving(false) left out of its finally.
FetchFail_savingStuck(c) ==
    /\ c \in calls
    /\ calls' = calls \ {c}
    /\ showToast("err", "Error", <<"exception", <<>>, "Failed to fetch">>)
    /\ UNCHANGED <<lastCityOp, editInput>>
    /\ UNCHANGED <<hourCycle, clock, ticks, mounted, draft, cityInput, saving,
                   editingIndex, editingValue, scheduledAheadOk, env, nOps, probe>>

\* fetch("/api/placeholder-upsert") rejects: the request or its response is lost.
FetchFail(c) ==
    /\ c \in calls
    /\ calls' = calls \ {c}
    /\ saving' = FALSE
    /\ showToast("err", "Error", <<"exception", <<>>, "Failed to fetch">>)
    /\ UNCHANGED <<lastCityOp, editInput>>
    /\ UNCHANGED <<hourCycle, clock, ticks, mounted, draft, cityInput,
                   editingIndex, editingValue, scheduledAheadOk, env, nOps, probe>>

-----------------------------------------------------------------------------
(* Direct evaluation of the time functions *)

NoProbe ==
    [fn |-> "none", timezone |-> <<>>, arg |-> <<>>, now |-> <<>>,
     minutes |-> NULL, hhmm |-> <<>>, ahead |-> FALSE]

EvalMinutesUntilSend(timezone, t) ==
    /\ probe = NoProbe
    /\ probe' = [fn       |-> "minutesUntilSend",
                 timezone |-> timezone,
                 arg      |-> t,
                 now      |-> nowHHMMInTimeZone(timezone),
                 minutes  |-> minutesUntilSend(timezone, t),
                 hhmm     |-> <<>>,
                 ahead    |-> isAtLeastMinutesAhead(timezone, t, MIN_AHEAD_MINUTES)]
    /\ UNCHANGED <<hourCycle, clock, ticks, mounted, draft, cityInput, saving, toast,
                   timers, toastTimer, editingIndex, editingValue, scheduledAheadOk, calls, env,
                   nOps, lastCityOp, editInput>>

EvalAddMinutes(timezone) ==
    /\ probe = NoProbe
    /\ LET t == addMinutesHHMMInTimeZone(timezone, MIN_AHEAD_MINUTES) IN
       probe' = [fn       |-> "addMinutes",
                 timezone |-> timezone,
                 arg      |-> <<>>,
                 now      |-> nowHHMMInTimeZone(timezone),
                 minutes  |-> minutesUntilSend(timezone, t),
                 hhmm     |-> t,
                 ahead    |-> isAtLeastMinutesAhead(timezone, t, MIN_AHEAD_MINUTES)]
    /\ UNCHANGED <<hourCycle, clock, ticks, mounted, draft, cityInput, saving, toast,
                   timers, toastTimer, editingIndex, editingValue, scheduledAheadOk, calls, env,
                   nOps, lastCityOp, editInput>>

\* Target strings handed to minutesUntilSend: well-formed times, and strings
\* that are out of range, too short, too long, padded or not a time at all.
ProbeTimes ==
    { HHMM(0, 0), HHMM(0, 1), HHMM(12, 30), HHMM(23, 59),
      HHMM(24, 0), HHMM(23, 60),
      <<"7",":","0","5">>, <<"0","7",":","0","5",":","0","0">>,
      <<" ">> \o HHMM(9, 15), <<>>, <<"a","b",":","c","d">> }

-----------------------------------------------------------------------------
(* Initial states *)

HourCycles == {"h23", "h24"}

\* useState<Draft>({...}) of the first render.
initialDraft(detectedTz) ==
    [ email          |-> <<>>,
      timezone       |-> detectedTz,
      preferred_time |-> nowHHMMInTimeZone(detectedTz),
      units          |-> "metric",
      cities         |-> <<London>>,
      is_active      |-> TRUE ]

Secret == <<"s","e","c","r","e","t">>

FullEnv ==
    [SUPABASE_URL |-> Some(Secret), ADMIN_SECRET |-> Some(Secret),
     SUPABASE_SERVICE_ROLE_KEY |-> Some(Secret)]

InitPage(clocks, zones, envs, pending) ==
    /\ hourCycle \in HourCycles
    /\ clock \in clocks
    /\ ticks = 0
    /\ mounted = FALSE
    /\ \E tz \in zones :
         /\ draft = initialDraft(tz)
         /\ scheduledAheadOk = computeScheduledAheadOk(initialDraft(tz))
    /\ cityInput = <<>>
    /\ saving = FALSE
    /\ toast = NULL
    /\ timers = {}
    /\ toastTimer = NULL
    /\ editingIndex = NULL
    /\ editingValue = <<>>
    /\ calls \in pending
    /\ env \in envs
    /\ nOps = 0
    /\ lastCityOp = [op |-> "none", n |-> 0]
    /\ editInput = noEditInput
    /\ probe = NoProbe

-----------------------------------------------------------------------------
(* The time functions on their own *)

\* Instants the time functions are evaluated at: every minute of the hours
\* after midnight, around noon and before midnight (UTC).
ProbeClocks == { h * 60 + m : h \in {0, 12, 23}, m \in 0..59 }

InitTime == InitPage(ProbeClocks, {UTC}, {FullEnv}, {{}})

NextTime ==
    \/ \E tz \in Zones, t \in ProbeTimes : EvalMinutesUntilSend(tz, t)
    \/ \E tz \in Zones : EvalAddMinutes(tz)

SpecTime == InitTime /\ [][NextTime]_vars

-----------------------------------------------------------------------------
(* The proxy on its own: any client may post any body to it *)

EnvValues == { NULL, Some(<<>>), Some(Secret) }

ProxyEnvs ==
    [SUPABASE_URL : EnvValues, ADMIN_SECRET : EnvValues, SUPABASE_SERVICE_ROLE_KEY : EnvValues]

ValidBody ==
    [ json           |-> TRUE,
      email          |-> Some(EmailOk),
      timezone       |-> Some(UTC),
      preferred_time |-> Some(HHMM(9, 0)),
      units          |-> Some("metric"),
      cities         |-> Some([isArray |-> TRUE, items |-> <<London>>]),
      is_active      |-> Some(TRUE) ]

\* A body req.json() rejects, or JSON null (body ?? {}).
EmptyBody(isJson) ==
    [ json |-> isJson, email |-> NULL, timezone |-> NULL, preferred_time |-> NULL,
      units |-> NULL, cities |-> NULL, is_active |-> NULL ]

ProxyBodies ==
    { ValidBody, EmptyBody(FALSE), EmptyBody(TRUE),
      [ValidBody EXCEPT !.email = NULL], [ValidBody EXCEPT !.email = Some(<<>>)],
      [ValidBody EXCEPT !.timezone = NULL], [ValidBody EXCEPT !.timezone = Some(<<>>)],
      [ValidBody EXCEPT !.preferred_time = NULL],
      [ValidBody EXCEPT !.preferred_time = Some(<<>>)],
      [ValidBody EXCEPT !.units = NULL], [ValidBody EXCEPT !.units = Some("")],
      [ValidBody EXCEPT !.cities = NULL],
      [ValidBody EXCEPT !.cities = Some([isArray |-> FALSE, items |-> <<>>])],
      [ValidBody EXCEPT !.cities = Some([isArray |-> TRUE, items |-> <<>>])],
      [ValidBody EXCEPT !.is_active = NULL] }

externalCall(body) ==
    [ id |-> 0, testNow |-> FALSE, scheduled |-> <<>>, timezone |-> <<>>, body |-> body,
      st |-> "sent", fwd |-> NULL, up |-> NULL, resp |-> NULL ]

UpstreamStatuses == {200, 201, 204, 304, 400, 404, 500}

UpstreamTexts == { <<>>, <<"1">>, <<" ","1","2"," ">>, <<"0","1">>, <<"o","k">> }

InitProxy == InitPage(StartClocks, {UTC}, ProxyEnvs, { {externalCall(b)} : b \in ProxyBodies })

NextProxy ==
    \/ \E c \in calls : ProxyReceive(c)
    \/ \E c \in calls, status \in UpstreamStatuses, text \in UpstreamTexts :
          UpstreamRespond(c, status, text)
    \/ \E c \in calls : UpstreamFail(c)

SpecProxy == InitProxy /\ [][NextProxy]_vars

-----------------------------------------------------------------------------
(* The city list on its own *)

Rome == <<"R","o","m","e">>

\* What the user types into the city inputs.
CityInputs ==
    { <<>>, <<" ">>, Rome, <<"r","o","m","e">>, <<" ">> \o Rome \o <<" ">>,
      <<"L","O","N","D","O","N">>, Paris }

CityChars == <<"a","b","c","d","e","f","g","h","i","j","k","l">>

\* n distinct city names.
Cities(n) == [i \in 1..n |-> <<"C", CityChars[i]>>]

StoredNothing ==
    [ email |-> NULL, timezone |-> NULL, preferred_time |-> NULL, units |-> NULL,
      cities |-> NULL, is_active |-> NULL ]

\* Contents of localStorage[DRAFT_KEY] when the page loads.
StoredCities ==
    { NULL,
      Some(StoredNothing),
      Some([StoredNothing EXCEPT !.cities =
                Some(<<London, <<" ","l","o","n","d","o","n"," ">>, <<>>, Paris,
                       <<"P","A","R","I","S">>, London>>)]),
      Some([StoredNothing EXCEPT !.cities = Some(Cities(9))]),
      Some([StoredNothing EXCEPT !.cities = Some(Cities(10))]),
      Some([StoredNothing EXCEPT !.cities = Some(Cities(12))]),
      Some([StoredNothing EXCEPT !.cities = Some(<<>>)]) }

InitCities == InitPage(StartClocks, {UTC}, {FullEnv}, {{}})

NextCities ==
    \/ \E parsed \in StoredCities : Restore(parsed)
    \/ \E v \in CityInputs : SetCityInput(v)
    \/ addCity
    \/ \E idx \in 0..9 : removeCity(idx)
    \/ \E idx \in 0..9 : startEditCity(idx)
    \/ \E v \in CityInputs : SetEditingValue(v)
    \/ focusEditInput
    \/ cancelEditCity
    \/ commitEditCity
    \/ blurEditInput

SpecCities == InitCities /\ [][NextCities]_vars

-----------------------------------------------------------------------------
(* The page and the proxy together *)

StoredMain ==
    { NULL,
      Some([ email          |-> Some(EmailOk),
             timezone       |-> Some(Kolkata),
             preferred_time |-> Some(<<"0","6",":","3","0",":","0","0">>),
             units          |-> Some("imperial"),
             cities         |-> Some(<<Paris, Rome>>),
             is_active      |-> Some(FALSE) ]),
      Some([StoredNothing EXCEPT !.preferred_time = Some(<<"2","5",":","0","0">>)]) }

MainEnvs == { FullEnv }

MainEmails == { EmailOk, <<"a","@","b">> }

MainStatuses == {200, 500}

MainTexts == { <<>>, <<"1">> }

Init == InitPage(StartClocks, {UTC}, MainEnvs, {{}})

Next ==
    \/ \E parsed \in StoredMain : Restore(parsed)
    \/ \E v \in MainEmails : SetEmail(v)
    \/ \E tz \in Zones : SetTimezone(tz)
    \/ \E v \in TimeInputs : SetPreferredTime(v)
    \/ \E u \in {"metric", "imperial"} : SetUnits(u)
    \/ ToggleActive
    \/ \E idx \in 0..9 : removeCity(idx)
    \/ ClickSave
    \/ ClickSendTest
    \/ \E c \in calls : ProxyReceive(c)
    \/ \E c \in calls, status \in MainStatuses, text \in MainTexts :
          UpstreamRespond(c, status, text)
    \/ \E c \in calls : UpstreamFail(c)
    \/ \E c \in calls : ReceiveResponse(c)
    \/ \E c \in calls : FetchFail(c)
    \/ \E t \in timers : ToastTimerFire(t)
    \/ Elapse
    \/ Tick

Spec == Init /\ [][Next]_vars

-----------------------------------------------------------------------------
(* Properties of the time functions *)

\* The well-formed times, by minute of the day.
WellFormedTimes == [i \in 0..1439 |-> HHMM(i \div 60, i % 60)]

\* The minutes of the day that a string, white space around it aside, writes
\* as HH:MM with 00 <= HH <= 23 and 00 <= MM <= 59: one, or none.
MinutesWritten(s) == LET t == trim(s) IN { i \in 0..1439 : WellFormedTimes[i] = t }

\* C5: minutesUntilSend(tz, t) is null when the current time string or t does
\* not parse as HH:MM with 00<=HH<=23 and 00<=MM<=59, and otherwise is
\* (target - now) mod 1440, a value of 0..1439: 0 when target equals now and 2
\* when now is 23:59 and target is 00:01.
C5_MinutesUntilSend ==
    probe.fn = "minutesUntilSend" =>
        LET nowM == MinutesWritten(probe.now)
            tgtM == MinutesWritten(probe.arg)
        IN  IF nowM = {} \/ tgtM = {}
            THEN probe.minutes = NULL
            ELSE \E n \in nowM, t \in tgtM :
                    /\ probe.minutes = Some((t - n) % 1440)
                    /\ probe.minutes[1] \in 0..1439
                    /\ (t = n => probe.minutes = Some(0))
                    /\ (n = 23 * 60 + 59 /\ t = 1 => probe.minutes = Some(2))

\* C5 witness: the wrap across midnight has been evaluated, now 23:59 and target 00:01.
C5_Witness ==
    /\ probe.fn = "minutesUntilSend"
    /\ probe.now = HHMM(23, 59)
    /\ probe.arg = HHMM(0, 1)
    /\ probe.minutes = Some(2)

\* C6: for every current time string the formatter can return,
\* addMinutesHHMMInTimeZone(tz, 2) is a time for which
\* isAtLeastMinutesAhead(tz, t, 2) is true against that same current time.
C6_TestTimePassesLookahead ==
    probe.fn = "addMinutes" => probe.ahead

-----------------------------------------------------------------------------
(* Properties of the submit *)

\* C1: a non-test save invoked when preferred_time is fewer than 2 minutes
\* ahead of the current time in the draft's timezone (modulo 1440, at the
\* moment of the click) shows the guidance notification and sends no request.
C1_SaveTooSoonIsRejected ==
    [][ ( /\ ClickSave
          /\ LET d == minutesUntilSend(draft.timezone, draft.preferred_time)
             IN  d # NULL /\ d[1] < MIN_AHEAD_MINUTES )
        => ( /\ calls' = calls
             /\ toast' # NULL
             /\ toast'[1].msg = "PickLaterTime" ) ]_vars

\* C2: every request the form sends carries an email that matches the loose
\* pattern, a non-blank timezone, a well-formed HH:MM preferred_time and at
\* least one city.
C2_SentPayloadsAreValid ==
    \A c \in calls :
        /\ isEmailLike(c.body.email[1])
        /\ trim(c.body.timezone[1]) # <<>>
        /\ MinutesWritten(c.body.preferred_time[1]) # {}
        /\ Len(c.body.cities[1].items) >= 1

\* C3: at most one submission is in flight, and while one is the saving flag
\* is set.
C3_AtMostOneInFlight ==
    /\ Cardinality(calls) <= 1
    /\ calls # {} => saving

\* C3 witness: a request is in flight while the draft would otherwise let
\* the send-test button start another.
C3_Witness ==
    /\ saving
    /\ isEmailLike(draft.email)
    /\ \E c \in calls : c.st = "upstream"

\* C10: a submit changes the draft only when it is a test-mode submit that
\* the proxy answered with success, and then only preferred_time, which
\* becomes the preferred_time that request carried.
C10_SubmitFrame ==
    [][ /\ (ClickSave \/ ClickSendTest) => draft' = draft
        /\ \A c \in calls :
              /\ FetchFail(c) => draft' = draft
              /\ ReceiveResponse(c) =>
                    IF c.testNow /\ isOk(c.resp[1].status)
                    THEN draft' = [draft EXCEPT !.preferred_time = c.body.preferred_time[1]]
                    ELSE draft' = draft ]_vars

\* C10 witness: a test-mode submit has succeeded after the user changed
\* another field while it was in flight.
C10_Witness ==
    /\ toast # NULL
    /\ toast[1].msg = "SavedTest"
    /\ draft.preferred_time = toast[1].detail[1]
    /\ draft.units = "imperial"
    /\ calls = {}

-----------------------------------------------------------------------------
(* Properties of the city list *)

\* C4: cities has at most 10 entries, no blank or untrimmed entry, and no two
\* entries equal ignoring case.
C4_CitiesSanitized ==
    /\ Len(draft.cities) <= 10
    /\ \A i \in 1..Len(draft.cities) :
          LET c == draft.cities[i] IN
          /\ c # <<>>
          /\ ~IsWs(c[1])
          /\ ~IsWs(c[Len(c)])
    /\ \A i, j \in 1..Len(draft.cities) :
          i # j => toLowerCase(draft.cities[i]) # toLowerCase(draft.cities[j])

\* C4 witness: the list restored from twelve stored names holds ten, and a
\* handler of the list has run on it since.
C4_Witness ==
    /\ mounted
    /\ lastCityOp.op = "commitEditCity"
    /\ lastCityOp.n = 10
    /\ Len(draft.cities) = 10

\* C9: addCity on a list of 10 entries leaves the list as it is, whatever the
\* input; on a shorter list a value that is not blank and no duplicate
\* ignoring case is appended, trimmed, after the entries already there.
C9_AddCityFrame ==
    [][ addCity =>
           LET v == trim(cityInput) IN
           /\ Len(draft.cities) = 10 => draft'.cities = draft.cities
           /\ ( /\ Len(draft.cities) < 10
                /\ ~ (\A k \in 1..Len(cityInput) : IsWs(cityInput[k]))
                /\ \A i \in 1..Len(draft.cities) :
                      toLowerCase(draft.cities[i]) # toLowerCase(v) )
              => draft'.cities = draft.cities \o <<v>> ]_vars

\* C9 witness: addCity has run with a name on a list of 10 entries.
C9_Witness ==
    /\ lastCityOp = [op |-> "addCity", n |-> 10]
    /\ cityInput = <<>>
    /\ Len(draft.cities) = 10

-----------------------------------------------------------------------------
(* Properties of the proxy *)

Unset(v) == v = NULL \/ Len(v[1]) = 0

FirstMissingSecret ==
    IF Unset(env.SUPABASE_URL) THEN "SUPABASE_URL"
    ELSE IF Unset(env.ADMIN_SECRET) THEN "ADMIN_SECRET"
    ELSE IF Unset(env.SUPABASE_SERVICE_ROLE_KEY) THEN "SUPABASE_SERVICE_ROLE_KEY"
    ELSE "none"

MissingSecretMessage ==
    [ SUPABASE_URL              |-> "Missing SUPABASE_URL env var",
      ADMIN_SECRET              |-> "Missing ADMIN_SECRET env var",
      SUPABASE_SERVICE_ROLE_KEY |-> "Missing SUPABASE_SERVICE_ROLE_KEY env var" ]

RequiredFieldsPresent(body) ==
    /\ body.email # NULL /\ Len(body.email[1]) > 0
    /\ body.timezone # NULL /\ Len(body.timezone[1]) > 0
    /\ body.preferred_time # NULL /\ Len(body.preferred_time[1]) > 0
    /\ body.units \in {Some("metric"), Some("imperial")}
    /\ body.cities # NULL /\ body.cities[1].isArray

\* C7: the proxy contacts the upstream endpoint only when the three secrets
\* are set and the payload has its required fields; a missing secret is
\* answered 500 naming the first one missing, whatever the payload, and a
\* payload with a required field missing is answered 400 with an error body
\* when the secrets are set; neither contacts the upstream endpoint.
C7_ProxyGate ==
    \A c \in calls :
        /\ c.fwd # NULL =>
              FirstMissingSecret = "none" /\ c.body.json /\ RequiredFieldsPresent(c.body)
        /\ (c.st # "sent" /\ FirstMissingSecret # "none") =>
              /\ c.fwd = NULL
              /\ c.resp # NULL
              /\ c.resp[1].status = 500
              /\ c.resp[1].error = MissingSecretMessage[FirstMissingSecret]
        /\ (/\ c.st # "sent"
            /\ FirstMissingSecret = "none"
            /\ c.body.json
            /\ ~RequiredFieldsPresent(c.body)) =>
              /\ c.fwd = NULL
              /\ c.resp # NULL
              /\ c.resp[1].status = 400
              /\ c.resp[1].kind = "error"
        /\ (c.st # "sent" /\ ~c.body.json) => c.fwd = NULL

\* C7 witness: with the secrets set, a body without an array of cities has
\* been answered 400.
C7_Witness ==
    \E c \in calls :
        /\ FirstMissingSecret = "none"
        /\ c.body.cities # NULL
        /\ ~c.body.cities[1].isArray
        /\ c.st = "replied"
        /\ c.resp[1].status = 400

\* C8, as claimed: whenever the upstream service responds, the proxy's
\* response has the upstream status and the upstream body.
C8_RelaysStatusAndBody ==
    \A c \in calls :
        c.up # NULL =>
            /\ c.resp[1].status = c.up[1].status
            /\ c.resp[1].kind # "error"
            /\ c.resp[1].text = c.up[1].text

\* C8, amended: a non-2xx upstream response is relayed with its status and
\* its text (a status that cannot carry a body is answered 500); a 2xx
\* upstream response is answered 200, with the upstream text when it is not
\* JSON and with the re-serialised JSON value when it is.
C8_RelayAmended ==
    \A c \in calls :
        c.up # NULL =>
            LET u == c.up[1]
                r == c.resp[1]
            IN  IF u.status \in 200..299
                THEN /\ r.status = 200
                     /\ r.kind # "error"
                     /\ r.text = IF jsonReserialize(u.text) # NULL
                                 THEN jsonReserialize(u.text)[1]
                                 ELSE u.text
                ELSE IF u.status = 304
                THEN r.status = 500 /\ r.kind = "error"
                ELSE /\ r.status = u.status
                     /\ r.kind = "text"
                     /\ r.text = u.text

\* C8 witness: an upstream 201 with a padded JSON body has been answered 200
\* with the JSON re-serialised.
C8_Witness ==
    \E c \in calls :
        /\ c.up = Some([status |-> 201, text |-> <<" ","1","2"," ">>])
        /\ c.resp[1].status = 200
        /\ c.resp[1].text = <<"1","2">>

-----------------------------------------------------------------------------
(* Properties of the notification *)

\* C11: while a notification is shown the timeout armed with it is pending
\* and due 3000 ms after the notification was shown, so the notification is
\* dismissed then unless it is replaced or cleared first; and a timeout that
\* fires while a notification is shown is the one armed with that
\* notification, firing when it has been shown for 3000 ms, never a timeout
\* armed for an earlier notification.
C11_ToastOwnTimer ==
    /\ [] ( toast # NULL =>
               /\ toast[1].age <= TOAST_MS
               /\ [id |-> toast[1].timer, left |-> TOAST_MS - toast[1].age] \in timers )
    /\ [][ \A t \in timers :
              (ToastTimerFire(t) /\ toast # NULL) =>
                  /\ t.id = toast[1].timer
                  /\ toast[1].age = TOAST_MS ]_vars

\* C11 witness: a second notification is shown, part of its delay has
\* passed, and more than 3000 ms have passed since the first was shown.
C11_Witness ==
    /\ toast # NULL
    /\ toast[1].timer = 2
    /\ toast[1].age > 0
    /\ toast[1].age < TOAST_MS
    /\ timers = {[id |-> 2, left |-> TOAST_MS - toast[1].age]}

\* C12: saving is true exactly while a submit is under way; a click that
\* starts a submit either sends the request and sets saving or is rejected
\* with saving false and a notification shown; and a submit that ends with
\* the proxy's response, whatever its status, or with a fetch exception
\* leaves saving false and a notification shown.
C12_SavingFlag ==
    /\ [] (saving <=> calls # {})
    /\ [][ /\ (ClickSave \/ ClickSendTest) =>
                 IF calls' # calls
                 THEN saving' /\ toast' = NULL
                 ELSE ~saving' /\ toast' # NULL
           /\ \A c \in calls :
                 /\ ReceiveResponse(c) =>
                       /\ ~saving'
                       /\ toast' # NULL
                       /\ toast'[1].kind = IF isOk(c.resp[1].status) THEN "ok" ELSE "err"
                 /\ FetchFail(c) =>
                       /\ ~saving'
                       /\ toast' # NULL
                       /\ toast'[1].kind = "err" ]_vars

\* C12 witness: a submit has ended with a fetch exception while the proxy
\* was still working on it, and the buttons are enabled again.
C12_Witness ==
    /\ ~saving
    /\ calls = {}
    /\ toast # NULL
    /\ toast[1].kind = "err"
    /\ toast[1].detail[1] = "exception"
    /\ ~sendTestDisabled

-----------------------------------------------------------------------------
(* Properties of the inline edit *)

\* C13: editingIndex is null or a valid index of draft.cities that still
\* designates the city the user started editing.
C13_EditingIndexDesignatesCity ==
    editingIndex # NULL =>
        /\ editingIndex[1] < Len(draft.cities)
        /\ editInput.city = Some(draft.cities[editingIndex[1] + 1])

====
